---- MODULE Spec2Model ----
(***************************************************************************)
(* The minter contract of contracts/minter/src/contract.rs as a state      *)
(* machine.  The state is the contract's storage (the items CONFIG,        *)
(* MINTABLE_NUM_TOKENS, CW721_ADDRESS, the cw2 version item and the map    *)
(* MINTABLE_TOKEN_IDS); there is one action per entry-point message.       *)
(* Every handler is an operator from the storage it is given to the        *)
(* storage it has written and the value it returns; the entry point        *)
(* keeps the written storage only when the handler returns Ok.             *)
(***************************************************************************)
EXTENDS Integers, Sequences, FiniteSets, TLC

VARIABLES
    CONFIG,               \* Item<Config>: None or Some(config)
    MINTABLE_NUM_TOKENS,  \* Item<u32>: None or Some(n)
    MINTABLE_TOKEN_IDS,   \* Map<u32, bool>: the set of keys present
    CW721_ADDRESS,        \* Item<Addr>: None or Some(addr)
    CONTRACT,             \* cw2's version item: None or Some(version)
    call,                 \* history: the last entry-point call, the storage it
                          \* started from, what its handler wrote and returned
    allocated             \* history: how many times each token id has been
                          \* returned by a successful mint call so far

vars == <<CONFIG, MINTABLE_NUM_TOKENS, MINTABLE_TOKEN_IDS, CW721_ADDRESS,
          CONTRACT, call, allocated>>

----------------------------------------------------------------------------
(* Bounds of the model. *)

\* the largest capacity (num_tokens) a successful instantiate is given
MaxNumTokens == 2
\* the longest token_ids list given to a batch call
MaxBatchLen == 2

(* Governance parameters of the contract. *)
MAX_TOKEN_LIMIT == 10000
MAX_TOKEN_PER_BATCH_LIMIT == 200
INSTANTIATE_CW721_REPLY_ID == 1
CONTRACT_NAME == "crates.io:artaverse-contracts"

----------------------------------------------------------------------------
(* Option<T>: None is the empty sequence, Some(x) the one-element one. *)
None == <<>>
Some(x) == <<x>>
IsSome(o) == o # <<>>
Unwrap(o) == o[1]

\* the last element first: Vec::pop order
Reverse(s) == [i \in 1..Len(s) |-> s[Len(s) + 1 - i]]
Range(s) == {s[i] : i \in 1..Len(s)}
NoDuplicates(s) == \A i, j \in 1..Len(s) : s[i] = s[j] => i = j
\* sequences over S of length at most n
SeqsUpTo(S, n) == UNION {[1..k -> S] : k \in 0..n}

----------------------------------------------------------------------------
(* The storage as one value, as a handler reads and writes it. *)
storage ==
    [CONFIG |-> CONFIG,
     MINTABLE_NUM_TOKENS |-> MINTABLE_NUM_TOKENS,
     MINTABLE_TOKEN_IDS |-> MINTABLE_TOKEN_IDS,
     CW721_ADDRESS |-> CW721_ADDRESS,
     CONTRACT |-> CONTRACT]

EmptyStorage ==
    [CONFIG |-> None,
     MINTABLE_NUM_TOKENS |-> None,
     MINTABLE_TOKEN_IDS |-> {},
     CW721_ADDRESS |-> None,
     CONTRACT |-> None]

(* What a handler returns: Ok(Response), Err(ContractError) or a panic.    *)
(* token_id is the response's "token_id" attribute (the allocated or       *)
(* transferred ids, in the order the handler appended them), msgs the      *)
(* messages and sub-messages added to the response.                        *)
Ok(method, token_id, msgs) ==
    [kind |-> "Ok", err |-> "", err_token_id |-> None,
     method |-> method, token_id |-> token_id, msgs |-> msgs]
Err(e) ==
    [kind |-> "Err", err |-> e, err_token_id |-> None,
     method |-> "", token_id |-> <<>>, msgs |-> <<>>]
TokenIdAlreadySold(id) ==
    [kind |-> "Err", err |-> "TokenIdAlreadySold", err_token_id |-> Some(id),
     method |-> "", token_id |-> <<>>, msgs |-> <<>>]
Panic(what) ==
    [kind |-> "Panic", err |-> what, err_token_id |-> None,
     method |-> "", token_id |-> <<>>, msgs |-> <<>>]

\* a handler's outcome: the result and the storage as the handler left it
Out(res, s) == [res |-> res, store |-> s]

----------------------------------------------------------------------------
(* Inputs. *)

\* message senders and recipients; addr_validate rejects the empty string
Owners == {"owner"}
Senders == {"alice"}
Recipients == {"bob", ""}
addr_validate(a) == a # ""

\* base_token_uri inputs: what Url::parse makes of them.  parses = FALSE is
\* a string Url::parse rejects.
IpfsUri == [parses |-> TRUE, scheme |-> "ipfs", text |-> "ipfs://base"]
HttpsUri == [parses |-> TRUE, scheme |-> "https", text |-> "https://base"]
BadUri == [parses |-> FALSE, scheme |-> "", text |-> "base"]

\* token ids given to mint and transfer calls: 0 and the ids of the largest
\* pool (above max_tokens in the contracts of a smaller capacity)
TokenIdInputs == 0..MaxNumTokens
BatchInputs == SeqsUpTo(TokenIdInputs, MaxBatchLen)
\* a batch transfer's recipient and list: every list to a valid recipient,
\* one list to an invalid one
BatchTransferInputs ==
    {<<r, ids>> \in Recipients \X BatchInputs : addr_validate(r) \/ ids = <<1>>}

\* InstantiateMsg inputs: a base message, varied one field at a time
BaseMsg ==
    [cw721_code_id |-> 7,
     name |-> "Artaverse",
     symbol |-> "ART",
     base_token_uri |-> IpfsUri,
     num_tokens |-> MaxNumTokens,
     max_tokens_per_batch_mint |-> MaxBatchLen,
     max_tokens_per_batch_transfer |-> MaxBatchLen,
     royalty_percentage |-> None,
     royalty_payment_address |-> None]

InstantiateInputs ==
    {[BaseMsg EXCEPT !.num_tokens = n] :
        n \in (0..MaxNumTokens) \cup {MAX_TOKEN_LIMIT + 1}}
    \cup {[BaseMsg EXCEPT !.max_tokens_per_batch_mint = n] :
        n \in (0..MaxBatchLen) \cup {MAX_TOKEN_PER_BATCH_LIMIT + 1}}
    \cup {[BaseMsg EXCEPT !.max_tokens_per_batch_transfer = n] :
        n \in (0..MaxBatchLen) \cup {MAX_TOKEN_PER_BATCH_LIMIT + 1}}
    \cup {[BaseMsg EXCEPT !.base_token_uri = u] : u \in {HttpsUri, BadUri}}
    \cup {[BaseMsg EXCEPT !.royalty_percentage = Some(p)] : p \in {5, 100, 150}}
    \cup {[BaseMsg EXCEPT !.royalty_payment_address = Some("royalty")]}
    \cup {[BaseMsg EXCEPT !.num_tokens = 0,
                          !.max_tokens_per_batch_mint = 0,
                          !.max_tokens_per_batch_transfer = 0,
                          !.base_token_uri = HttpsUri],
          [BaseMsg EXCEPT !.max_tokens_per_batch_mint = MAX_TOKEN_PER_BATCH_LIMIT + 1,
                          !.max_tokens_per_batch_transfer = 0,
                          !.base_token_uri = BadUri],
          [BaseMsg EXCEPT !.max_tokens_per_batch_transfer = MAX_TOKEN_PER_BATCH_LIMIT + 1,
                          !.base_token_uri = HttpsUri]}

\* Uint128 values.  The model checker's integers stop far below 2^128, so a
\* Uint128 is written as the pair standing for
\* floor(u128::MAX * max_percent / 100) + plus: the small values have
\* max_percent = 0, and u128::MAX itself is max_percent = 100, plus = 0.
Uint128(n) == [max_percent |-> 0, plus |-> n]
Uint128_MAX == [max_percent |-> 100, plus |-> 0]
\* sale prices asked of RoyaltyInfo
SalePrices == {Uint128(0), Uint128(30), Uint128(10000), Uint128_MAX}

\* Reply inputs: the sub-message id the reply carries, and what
\* parse_reply_instantiate_data makes of its payload: the instantiated
\* contract's address, or an error
ReplyIds == {0, INSTANTIATE_CW721_REPLY_ID}
ReplyPayloads == {Some("cw721_A"), Some("cw721_B"), None}

----------------------------------------------------------------------------
(* instantiate *)

\* the sub-message that instantiates the cw721 contract
InstantiateSubMsg(sender, msg) ==
    [id |-> INSTANTIATE_CW721_REPLY_ID,
     reply_on |-> "Success",
     admin |-> Some(sender),
     code_id |-> msg.cw721_code_id,
     name |-> msg.name,
     symbol |-> msg.symbol,
     label |-> "Check CW721"]

\* a plausible slip: the exclusive range 1..num_tokens
MintableRange_Exclusive(num_tokens) == 1..(num_tokens - 1)

\* the keys saved by `for token_id in 1..=msg.num_tokens`
MintableRange(num_tokens) == 1..num_tokens

\* a plausible slip: the transfer limit checked against 0 only
instantiate_TransferLimitUnbounded(s, sender, msg) ==
    LET s1 == [s EXCEPT !.CONTRACT = Some(CONTRACT_NAME)]
        config ==
            [owner |-> sender,
             cw721_code_id |-> msg.cw721_code_id,
             cw721_address |-> None,
             name |-> msg.name,
             symbol |-> msg.symbol,
             base_token_uri |-> msg.base_token_uri,
             max_tokens |-> msg.num_tokens,
             max_tokens_per_batch_mint |-> msg.max_tokens_per_batch_mint,
             max_tokens_per_batch_transfer |-> msg.max_tokens_per_batch_transfer,
             royalty_percentage |-> msg.royalty_percentage,
             royalty_payment_address |-> msg.royalty_payment_address]
    IN  IF msg.num_tokens = 0 \/ msg.num_tokens > MAX_TOKEN_LIMIT
        THEN Out(Err("InvalidNumTokens"), s1)
        ELSE IF msg.max_tokens_per_batch_mint = 0
                \/ msg.max_tokens_per_batch_mint > MAX_TOKEN_PER_BATCH_LIMIT
        THEN Out(Err("InvalidMaxTokensPerBatchMint"), s1)
        ELSE IF msg.max_tokens_per_batch_transfer = 0
        THEN Out(Err("InvalidMaxTokensPerBatchTransfer"), s1)
        ELSE IF ~msg.base_token_uri.parses
        THEN Out(Err("ParseError"), s1)
        ELSE IF msg.base_token_uri.scheme # "ipfs"
        THEN Out(Err("InvalidBaseTokenURI"), s1)
        ELSE Out(Ok("instantiate", <<>>, <<InstantiateSubMsg(sender, msg)>>),
                 [s1 EXCEPT !.CONFIG = Some(config),
                            !.MINTABLE_NUM_TOKENS = Some(msg.num_tokens),
                            !.MINTABLE_TOKEN_IDS = MintableRange(msg.num_tokens)])

instantiate(s, sender, msg) ==
    LET s1 == [s EXCEPT !.CONTRACT = Some(CONTRACT_NAME)]
        config ==
            [owner |-> sender,
             cw721_code_id |-> msg.cw721_code_id,
             cw721_address |-> None,
             name |-> msg.name,
             symbol |-> msg.symbol,
             base_token_uri |-> msg.base_token_uri,
             max_tokens |-> msg.num_tokens,
             max_tokens_per_batch_mint |-> msg.max_tokens_per_batch_mint,
             max_tokens_per_batch_transfer |-> msg.max_tokens_per_batch_transfer,
             royalty_percentage |-> msg.royalty_percentage,
             royalty_payment_address |-> msg.royalty_payment_address]
    IN  IF msg.num_tokens = 0 \/ msg.num_tokens > MAX_TOKEN_LIMIT
        THEN Out(Err("InvalidNumTokens"), s1)
        ELSE IF msg.max_tokens_per_batch_mint = 0
                \/ msg.max_tokens_per_batch_mint > MAX_TOKEN_PER_BATCH_LIMIT
        THEN Out(Err("InvalidMaxTokensPerBatchMint"), s1)
        ELSE IF msg.max_tokens_per_batch_transfer = 0
                \/ msg.max_tokens_per_batch_transfer > MAX_TOKEN_PER_BATCH_LIMIT
        THEN Out(Err("InvalidMaxTokensPerBatchTransfer"), s1)
        ELSE IF ~msg.base_token_uri.parses
        THEN Out(Err("ParseError"), s1)
        ELSE IF msg.base_token_uri.scheme # "ipfs"
        THEN Out(Err("InvalidBaseTokenURI"), s1)
        ELSE Out(Ok("instantiate", <<>>, <<InstantiateSubMsg(sender, msg)>>),
                 [s1 EXCEPT !.CONFIG = Some(config),
                            !.MINTABLE_NUM_TOKENS = Some(msg.num_tokens),
                            !.MINTABLE_TOKEN_IDS = MintableRange(msg.num_tokens)])

----------------------------------------------------------------------------
(* mint *)

\* u32 `n - 1`: below zero the build decides, a panic with overflow checks
\* and a wrap to u32::MAX (written -1 here, its two's-complement alias)
\* without
checked_sub1(n, overflow_checks) ==
    IF n >= 1 THEN Some(n - 1)
    ELSE IF overflow_checks THEN None ELSE Some(-1)

\* the metadata the mint message carries
Metadata(config) ==
    [royalty_percentage |-> config.royalty_percentage,
     royalty_payment_address |-> config.royalty_payment_address]

\* a plausible slip: an absent address defaulted instead of unwrapped
_create_cw721_mint_DefaultAddr(config, recipient_addr, mintable_token_id) ==
    Some([contract_addr |->
              IF IsSome(config.cw721_address)
              THEN Unwrap(config.cw721_address) ELSE "",
          msg |-> "Mint",
          token_id |-> mintable_token_id,
          owner |-> recipient_addr,
          token_uri |-> Some(<<config.base_token_uri.text, "/",
                               mintable_token_id>>),
          extension |-> Some(Metadata(config))])

\* Result<CosmosMsg, ContractError>: None when cw721_address.unwrap() panics
_create_cw721_mint(config, recipient_addr, mintable_token_id) ==
    IF ~IsSome(config.cw721_address)
    THEN None
    ELSE Some([contract_addr |-> Unwrap(config.cw721_address),
               msg |-> "Mint",
               token_id |-> mintable_token_id,
               owner |-> recipient_addr,
               token_uri |-> Some(<<config.base_token_uri.text, "/",
                                    mintable_token_id>>),
               extension |-> Some(Metadata(config))])

\* a plausible slip: the key removed, the counter left as it was
RemoveMintable_NoDecrement(s, token_id, overflow_checks) ==
    Some([s EXCEPT !.MINTABLE_TOKEN_IDS = @ \ {token_id}])

\* a plausible slip: the counter decremented, the key left in the map
RemoveMintable_NoRemove(s, token_id, overflow_checks) ==
    LET n == checked_sub1(Unwrap(s.MINTABLE_NUM_TOKENS), overflow_checks)
    IN  IF ~IsSome(n) THEN None ELSE Some([s EXCEPT !.MINTABLE_NUM_TOKENS = n])

\* MINTABLE_TOKEN_IDS.remove(token_id), then MINTABLE_NUM_TOKENS load,
\* decrement and save: None when the decrement panics
RemoveMintable(s, token_id, overflow_checks) ==
    LET n == checked_sub1(Unwrap(s.MINTABLE_NUM_TOKENS), overflow_checks)
    IN  IF ~IsSome(n)
        THEN None
        ELSE Some([s EXCEPT !.MINTABLE_TOKEN_IDS = @ \ {token_id},
                            !.MINTABLE_NUM_TOKENS = n])

\* a plausible slip: Order::Descending
FirstKeyAscending_Descending(keys) ==
    IF keys = {} THEN None
    ELSE Some(CHOOSE k \in keys : \A j \in keys : k >= j)

\* keys(.., Order::Ascending).take(1): the smallest key, if any
FirstKeyAscending(keys) ==
    IF keys = {} THEN None
    ELSE Some(CHOOSE k \in keys : \A j \in keys : k <= j)

\* a plausible slip: the map consulted before the range
_execute_mint_HasFirst(s, overflow_checks, sender, recipient, token_id) ==
    LET config == Unwrap(s.CONFIG)
        recipient_addr == IF IsSome(recipient) THEN Unwrap(recipient) ELSE sender
        first == FirstKeyAscending(s.MINTABLE_TOKEN_IDS)
        to_mint(mintable_token_id) ==
            LET msg == _create_cw721_mint(config, recipient_addr, mintable_token_id)
                s1 == RemoveMintable(s, mintable_token_id, overflow_checks)
            IN  IF ~IsSome(msg)
                THEN Out(Panic("unwrap on None"), s)
                ELSE IF ~IsSome(s1)
                THEN Out(Panic("subtract with overflow"),
                         [s EXCEPT !.MINTABLE_TOKEN_IDS = @ \ {mintable_token_id}])
                ELSE Out(Ok("mint", <<mintable_token_id>>, <<Unwrap(msg)>>),
                         Unwrap(s1))
    IN  IF IsSome(token_id)
        THEN IF Unwrap(token_id) \notin s.MINTABLE_TOKEN_IDS
             THEN Out(TokenIdAlreadySold(Unwrap(token_id)), s)
             ELSE IF Unwrap(token_id) = 0 \/ Unwrap(token_id) > config.max_tokens
             THEN Out(Err("InvalidTokenId"), s)
             ELSE to_mint(Unwrap(token_id))
        ELSE IF ~IsSome(first)
             THEN Out(Err("SoldOut"), s)
             ELSE to_mint(Unwrap(first))

\* recipient and token_id are Options, as in the source
_execute_mint(s, overflow_checks, sender, recipient, token_id) ==
    LET config == Unwrap(s.CONFIG)
        recipient_addr == IF IsSome(recipient) THEN Unwrap(recipient) ELSE sender
        first == FirstKeyAscending(s.MINTABLE_TOKEN_IDS)
        to_mint(mintable_token_id) ==
            LET msg == _create_cw721_mint(config, recipient_addr, mintable_token_id)
                s1 == RemoveMintable(s, mintable_token_id, overflow_checks)
            IN  IF ~IsSome(msg)
                THEN Out(Panic("unwrap on None"), s)
                ELSE IF ~IsSome(s1)
                THEN Out(Panic("subtract with overflow"),
                         [s EXCEPT !.MINTABLE_TOKEN_IDS = @ \ {mintable_token_id}])
                ELSE Out(Ok("mint", <<mintable_token_id>>, <<Unwrap(msg)>>),
                         Unwrap(s1))
    IN  IF IsSome(token_id)
        THEN IF Unwrap(token_id) = 0 \/ Unwrap(token_id) > config.max_tokens
             THEN Out(Err("InvalidTokenId"), s)
             ELSE IF Unwrap(token_id) \notin s.MINTABLE_TOKEN_IDS
             THEN Out(TokenIdAlreadySold(Unwrap(token_id)), s)
             ELSE to_mint(Unwrap(token_id))
        ELSE IF ~IsSome(first)
             THEN Out(Err("SoldOut"), s)
             ELSE to_mint(Unwrap(first))

execute_mint_sender(s, overflow_checks, sender, token_id) ==
    _execute_mint(s, overflow_checks, sender, Some(sender), Some(token_id))

execute_mint_to(s, overflow_checks, sender, recipient, token_id) ==
    IF ~addr_validate(recipient)
    THEN Out(Err("Std"), s)
    ELSE _execute_mint(s, overflow_checks, sender, Some(recipient), Some(token_id))

----------------------------------------------------------------------------
(* batch mint *)

\* a plausible slip: the list taken from its front
pop_Front(v) == [item |-> v[1], rest |-> SubSeq(v, 2, Len(v))]

\* Vec::pop on a non-empty vector: its last item, and the vector without it
pop(v) == [item |-> v[Len(v)], rest |-> SubSeq(v, 1, Len(v) - 1)]

\* a plausible slip: the `has` check left out
CheckBatchTokenId_NoHas(config, keys, token_id) ==
    IF token_id = 0 \/ token_id > config.max_tokens
    THEN Some(Err("InvalidTokenId"))
    ELSE None

\* the two checks of a batch's token_id: the error returned, or None
CheckBatchTokenId(config, keys, token_id) ==
    IF token_id = 0 \/ token_id > config.max_tokens
    THEN Some(Err("InvalidTokenId"))
    ELSE IF token_id \notin keys
    THEN Some(TokenIdAlreadySold(token_id))
    ELSE None

\* a plausible slip: an id already minted by this call passed over
RECURSIVE BatchMintLoop_SkipsRepeats(_, _, _, _, _, _, _, _)
BatchMintLoop_SkipsRepeats(s, overflow_checks, config, recipient_addr, batch_token_ids, count, minted_token_ids, msgs) ==
    IF batch_token_ids = <<>>
    THEN Out(Ok("batch_mint", minted_token_ids, msgs), s)
    ELSE
    LET token_id == pop(batch_token_ids).item
        popped == pop(batch_token_ids).rest
        check == CheckBatchTokenId(config, s.MINTABLE_TOKEN_IDS, token_id)
        msg == _create_cw721_mint(config, recipient_addr, token_id)
        s1 == RemoveMintable(s, token_id, overflow_checks)
    IN  IF count >= config.max_tokens_per_batch_mint
        THEN Out(Ok("batch_mint", minted_token_ids, msgs), s)
        ELSE IF token_id \in Range(minted_token_ids)
        THEN BatchMintLoop_SkipsRepeats(s, overflow_checks, config, recipient_addr,
                                        popped, count, minted_token_ids, msgs)
        ELSE IF IsSome(check)
        THEN Out(Unwrap(check), s)
        ELSE IF ~IsSome(msg)
        THEN Out(Panic("unwrap on None"), s)
        ELSE IF ~IsSome(s1)
        THEN Out(Panic("subtract with overflow"),
                 [s EXCEPT !.MINTABLE_TOKEN_IDS = @ \ {token_id}])
        ELSE BatchMintLoop_SkipsRepeats(Unwrap(s1), overflow_checks, config,
                                        recipient_addr, popped, count + 1,
                                        Append(minted_token_ids, token_id),
                                        Append(msgs, Unwrap(msg)))

\* the `while let Some(token_id) = batch_token_ids.pop()` loop, from the
\* state of its locals at the top of an iteration
RECURSIVE BatchMintLoop(_, _, _, _, _, _, _, _)
BatchMintLoop(s, overflow_checks, config, recipient_addr, batch_token_ids, count, minted_token_ids, msgs) ==
    IF batch_token_ids = <<>>
    THEN Out(Ok("batch_mint", minted_token_ids, msgs), s)
    ELSE
    LET token_id == pop(batch_token_ids).item
        popped == pop(batch_token_ids).rest
        check == CheckBatchTokenId(config, s.MINTABLE_TOKEN_IDS, token_id)
        msg == _create_cw721_mint(config, recipient_addr, token_id)
        s1 == RemoveMintable(s, token_id, overflow_checks)
    IN  IF count >= config.max_tokens_per_batch_mint
        THEN Out(Ok("batch_mint", minted_token_ids, msgs), s)
        ELSE IF IsSome(check)
        THEN Out(Unwrap(check), s)
        ELSE IF ~IsSome(msg)
        THEN Out(Panic("unwrap on None"), s)
        ELSE IF ~IsSome(s1)
        THEN Out(Panic("subtract with overflow"),
                 [s EXCEPT !.MINTABLE_TOKEN_IDS = @ \ {token_id}])
        ELSE BatchMintLoop(Unwrap(s1), overflow_checks, config, recipient_addr,
                           popped, count + 1,
                           Append(minted_token_ids, token_id),
                           Append(msgs, Unwrap(msg)))

_execute_batch_mint(s, overflow_checks, sender, recipient, batch_token_ids) ==
    LET config == Unwrap(s.CONFIG)
        recipient_addr == IF IsSome(recipient) THEN Unwrap(recipient) ELSE sender
    IN  BatchMintLoop(s, overflow_checks, config, recipient_addr,
                      batch_token_ids, 0, <<>>, <<>>)

execute_batch_mint_sender(s, overflow_checks, sender, token_ids) ==
    _execute_batch_mint(s, overflow_checks, sender, Some(sender), token_ids)

----------------------------------------------------------------------------
(* transfer *)

\* Result<CosmosMsg, ContractError>: None when cw721_address.unwrap() panics
_create_cw721_transfer(config, recipient_addr, token_id) ==
    IF ~IsSome(config.cw721_address)
    THEN None
    ELSE Some([contract_addr |-> Unwrap(config.cw721_address),
               msg |-> "TransferNft",
               recipient |-> recipient_addr,
               token_id |-> token_id])

\* a plausible slip: the transferred id taken out of the map, as in a mint
_execute_transfer_nft_RemovesMintable(s, sender, recipient, token_id) ==
    LET config == Unwrap(s.CONFIG)
        msg == _create_cw721_transfer(config, recipient, token_id)
    IN  IF ~IsSome(msg)
        THEN Out(Panic("unwrap on None"), s)
        ELSE Out(Ok("transfer_nft", <<token_id>>, <<Unwrap(msg)>>),
                 [s EXCEPT !.MINTABLE_TOKEN_IDS = @ \ {token_id}])

_execute_transfer_nft(s, sender, recipient, token_id) ==
    LET config == Unwrap(s.CONFIG)
        msg == _create_cw721_transfer(config, recipient, token_id)
    IN  IF ~IsSome(msg)
        THEN Out(Panic("unwrap on None"), s)
        ELSE Out(Ok("transfer_nft", <<token_id>>, <<Unwrap(msg)>>), s)

execute_transfer_nft(s, sender, recipient, token_id) ==
    IF ~addr_validate(recipient)
    THEN Out(Err("Std"), s)
    ELSE _execute_transfer_nft(s, sender, recipient, token_id)

\* a plausible slip: the batch mint's range check kept in the transfer loop
RECURSIVE BatchTransferLoop_Validates(_, _, _, _, _, _, _)
BatchTransferLoop_Validates(s, config, recipient, batch_token_ids, count, minted_token_ids, msgs) ==
    IF batch_token_ids = <<>>
    THEN Out(Ok("batch_transfer_nft", minted_token_ids, msgs), s)
    ELSE
    LET token_id == pop(batch_token_ids).item
        popped == pop(batch_token_ids).rest
        msg == _create_cw721_transfer(config, recipient, token_id)
    IN  IF count >= config.max_tokens_per_batch_transfer
        THEN Out(Ok("batch_transfer_nft", minted_token_ids, msgs), s)
        ELSE IF token_id = 0 \/ token_id > config.max_tokens
        THEN Out(Err("InvalidTokenId"), s)
        ELSE IF ~IsSome(msg)
        THEN Out(Panic("unwrap on None"), s)
        ELSE BatchTransferLoop_Validates(s, config, recipient, popped, count + 1,
                                         Append(minted_token_ids, token_id),
                                         Append(msgs, Unwrap(msg)))

RECURSIVE BatchTransferLoop(_, _, _, _, _, _, _)
BatchTransferLoop(s, config, recipient, batch_token_ids, count, minted_token_ids, msgs) ==
    IF batch_token_ids = <<>>
    THEN Out(Ok("batch_transfer_nft", minted_token_ids, msgs), s)
    ELSE
    LET token_id == pop(batch_token_ids).item
        popped == pop(batch_token_ids).rest
        msg == _create_cw721_transfer(config, recipient, token_id)
    IN  IF count >= config.max_tokens_per_batch_transfer
        THEN Out(Ok("batch_transfer_nft", minted_token_ids, msgs), s)
        ELSE IF ~IsSome(msg)
        THEN Out(Panic("unwrap on None"), s)
        ELSE BatchTransferLoop(s, config, recipient, popped, count + 1,
                               Append(minted_token_ids, token_id),
                               Append(msgs, Unwrap(msg)))

_execute_batch_transfer_nft(s, sender, recipient, batch_token_ids) ==
    BatchTransferLoop(s, Unwrap(s.CONFIG), recipient, batch_token_ids,
                      0, <<>>, <<>>)

execute_batch_transfer_nft(s, sender, recipient, token_ids) ==
    IF ~addr_validate(recipient)
    THEN Out(Err("Std"), s)
    ELSE _execute_batch_transfer_nft(s, sender, recipient, token_ids)

----------------------------------------------------------------------------
(* reply *)

\* a plausible slip: the reply id left unchecked
reply_NoIdCheck(s, id, payload) ==
    LET config == Unwrap(s.CONFIG)
    IN  IF IsSome(payload)
        THEN Out(Ok("instantiate_cw721_reply", <<>>, <<>>),
                 [s EXCEPT !.CONFIG = Some([config EXCEPT !.cw721_address = payload]),
                           !.CW721_ADDRESS = payload])
        ELSE Out(Err("InstantiateCW721Error"), s)

\* a plausible slip: the Config saved by reply rebuilt without the royalty
reply_RebuildsConfig(s, id, payload) ==
    LET config == Unwrap(s.CONFIG)
    IN  IF id # INSTANTIATE_CW721_REPLY_ID
        THEN Out(Err("InvalidReplyID"), s)
        ELSE IF IsSome(payload)
        THEN Out(Ok("instantiate_cw721_reply", <<>>, <<>>),
                 [s EXCEPT !.CONFIG = Some([config EXCEPT !.cw721_address = payload,
                                                          !.royalty_percentage = None]),
                           !.CW721_ADDRESS = payload])
        ELSE Out(Err("InstantiateCW721Error"), s)

\* payload is what parse_reply_instantiate_data returns: Some(address) for
\* Ok(res), None for Err
reply(s, id, payload) ==
    LET config == Unwrap(s.CONFIG)
    IN  IF id # INSTANTIATE_CW721_REPLY_ID
        THEN Out(Err("InvalidReplyID"), s)
        ELSE IF IsSome(payload)
        THEN Out(Ok("instantiate_cw721_reply", <<>>, <<>>),
                 [s EXCEPT !.CONFIG = Some([config EXCEPT !.cw721_address = payload]),
                           !.CW721_ADDRESS = payload])
        ELSE Out(Err("InstantiateCW721Error"), s)

----------------------------------------------------------------------------
(* query *)

\* the outcome of a query that answers: data is the response
QueryOk(data) ==
    [kind |-> "Ok", err |-> "", err_token_id |-> None,
     method |-> "query", token_id |-> <<>>, msgs |-> <<>>, data |-> data]

query_config(s) ==
    LET config == Unwrap(s.CONFIG)
    IN  Out(QueryOk([owner |-> config.owner,
                     cw721_code_id |-> config.cw721_code_id,
                     cw721_address |-> config.cw721_address,
                     max_tokens |-> config.max_tokens,
                     max_tokens_per_mint |-> config.max_tokens_per_batch_mint,
                     max_tokens_per_batch_transfer |->
                         config.max_tokens_per_batch_transfer,
                     name |-> config.name,
                     symbol |-> config.symbol,
                     base_token_uri |-> config.base_token_uri,
                     extension |-> Some(Metadata(config))]), s)

\* Decimal::percent(x): x * 10^16 over the denominator 10^18, written here
\* with the common factor 10^16 taken out of both
Decimal_percent(x) == [numerator |-> x, denominator |-> 100]

\* Uint128 * Decimal: the product of the value and the numerator, taken in
\* 256 bits, divided by the denominator rounding down; None is the panic
\* of a quotient that does not fit in 128 bits.  Of the values above the
\* small ones only u128::MAX is multiplied.
Uint128_mul(a, d) ==
    IF a = Uint128(0) \/ d.numerator = 0 THEN Some(Uint128(0))
    ELSE IF a.max_percent = 0
    THEN Some(Uint128((a.plus * d.numerator) \div d.denominator))
    ELSE IF d.numerator > d.denominator THEN None
    ELSE Some([max_percent |-> d.numerator, plus |-> 0])

query_royalties_info(s, sale_price) ==
    LET config == Unwrap(s.CONFIG)
        royalty_percentage ==
            IF IsSome(config.royalty_percentage)
            THEN Decimal_percent(Unwrap(config.royalty_percentage))
            ELSE Decimal_percent(0)
        royalty_from_sale_price == Uint128_mul(sale_price, royalty_percentage)
        royalty_address ==
            IF IsSome(config.royalty_payment_address)
            THEN Unwrap(config.royalty_payment_address)
            ELSE ""
    IN  IF ~IsSome(royalty_from_sale_price)
        THEN Out(Panic("multiplication overflow"), s)
        ELSE Out(QueryOk([royalty_address |-> royalty_address,
                          royalty_amount |-> Unwrap(royalty_from_sale_price)]), s)

----------------------------------------------------------------------------
(* The entry points. *)

\* a plausible slip: the writes of a failed call kept
entry_point_KeepWrites(pre, out) == out.store

\* #[entry_point]: the storage a call leaves behind.  The writes of a
\* handler that returns Err, or panics, are discarded with the failed call;
\* those of a handler that returns Ok are kept.
entry_point(pre, out) ==
    IF out.res.kind = "Ok" THEN out.store ELSE pre

MintOps == {"mint", "mint_to", "batch_mint", "auto_mint"}

\* how many entries of the sequence s are x
Occurrences(s, x) == Cardinality({i \in 1..Len(s) : s[i] = x})

\* the build's overflow-checks setting, for the calls that can observe it:
\* only the decrement of a counter that is 0 depends on it
Builds == IF MINTABLE_NUM_TOKENS = Some(0) THEN BOOLEAN ELSE {TRUE}

\* one call of an entry point: op and args name the message, out is the
\* handler's outcome on the current storage
Enter(op, args, out) ==
    LET post == entry_point(storage, out)
    IN  /\ CONFIG' = post.CONFIG
        /\ MINTABLE_NUM_TOKENS' = post.MINTABLE_NUM_TOKENS
        /\ MINTABLE_TOKEN_IDS' = post.MINTABLE_TOKEN_IDS
        /\ CW721_ADDRESS' = post.CW721_ADDRESS
        /\ CONTRACT' = post.CONTRACT
        /\ call' = [op |-> op, args |-> args, pre |-> storage,
                    res |-> out.res, written |-> out.store]
        /\ allocated' = IF op \in MintOps /\ out.res.kind = "Ok"
                        THEN [id \in DOMAIN allocated |->
                                 allocated[id] + Occurrences(out.res.token_id, id)]
                        ELSE allocated

\* the contract exists once an instantiate has succeeded
Instantiated == IsSome(CONFIG)

Init ==
    /\ CONFIG = None
    /\ MINTABLE_NUM_TOKENS = None
    /\ MINTABLE_TOKEN_IDS = {}
    /\ CW721_ADDRESS = None
    /\ CONTRACT = None
    /\ call = [op |-> "none", args |-> <<>>, pre |-> EmptyStorage,
               res |-> Ok("", <<>>, <<>>), written |-> EmptyStorage]
    /\ allocated = [id \in TokenIdInputs |-> 0]

Instantiate(sender, msg) ==
    /\ ~Instantiated
    /\ Enter("instantiate", [sender |-> sender, msg |-> msg],
             instantiate(storage, sender, msg))

Mint(overflow_checks, sender, token_id) ==
    /\ Instantiated
    /\ Enter("mint", [sender |-> sender, token_ids |-> <<token_id>>],
             execute_mint_sender(storage, overflow_checks, sender, token_id))

MintTo(overflow_checks, sender, recipient, token_id) ==
    /\ Instantiated
    /\ Enter("mint_to",
             [sender |-> sender, recipient |-> recipient,
              token_ids |-> <<token_id>>],
             execute_mint_to(storage, overflow_checks, sender, recipient, token_id))

BatchMint(overflow_checks, sender, token_ids) ==
    /\ Instantiated
    /\ Enter("batch_mint", [sender |-> sender, token_ids |-> token_ids],
             execute_batch_mint_sender(storage, overflow_checks, sender, token_ids))

TransferNft(sender, recipient, token_id) ==
    /\ Instantiated
    /\ Enter("transfer_nft",
             [sender |-> sender, recipient |-> recipient,
              token_ids |-> <<token_id>>],
             execute_transfer_nft(storage, sender, recipient, token_id))

BatchTransferNft(sender, recipient, token_ids) ==
    /\ Instantiated
    /\ Enter("batch_transfer_nft",
             [sender |-> sender, recipient |-> recipient,
              token_ids |-> token_ids],
             execute_batch_transfer_nft(storage, sender, recipient, token_ids))

Reply(id, payload) ==
    /\ Instantiated
    /\ Enter("reply", [id |-> id, payload |-> payload],
             reply(storage, id, payload))

GetConfig ==
    /\ Instantiated
    /\ Enter("get_config", <<>>, query_config(storage))

RoyaltyInfo(sale_price) ==
    /\ Instantiated
    /\ Enter("royalty_info", [sale_price |-> sale_price],
             query_royalties_info(storage, sale_price))

Next ==
    \/ \E sender \in Owners, msg \in InstantiateInputs : Instantiate(sender, msg)
    \/ \E oc \in Builds, sender \in Senders, token_id \in TokenIdInputs :
          Mint(oc, sender, token_id)
    \/ \E oc \in Builds, sender \in Senders, recipient \in Recipients,
          token_id \in TokenIdInputs :
          MintTo(oc, sender, recipient, token_id)
    \/ \E oc \in Builds, sender \in Senders, token_ids \in BatchInputs :
          BatchMint(oc, sender, token_ids)
    \/ \E sender \in Senders, recipient \in Recipients, token_id \in TokenIdInputs :
          TransferNft(sender, recipient, token_id)
    \/ \E sender \in Senders, in \in BatchTransferInputs :
          BatchTransferNft(sender, in[1], in[2])
    \/ \E id \in ReplyIds, payload \in ReplyPayloads : Reply(id, payload)
    \/ GetConfig
    \/ \E sale_price \in SalePrices : RoyaltyInfo(sale_price)

Spec == Init /\ [][Next]_vars

\* _execute_mint entered with token_id = None.  No ExecuteMsg does so (Mint
\* and MintTo always pass Some(token_id)); the action stands for a caller
\* inside the crate, and SpecAutoPick adds it to the entry points.
AutoMint(overflow_checks, sender) ==
    /\ Instantiated
    /\ Enter("auto_mint", [sender |-> sender, token_ids |-> <<>>],
             _execute_mint(storage, overflow_checks, sender, None, None))

NextAutoPick ==
    \/ Next
    \/ \E oc \in Builds, sender \in Senders : AutoMint(oc, sender)

SpecAutoPick == Init /\ [][NextAutoPick]_vars

----------------------------------------------------------------------------
(* Properties.  Each is stated over the last call (call) and the storage   *)
(* it left behind.                                                         *)

PreConfig == Unwrap(call.pre.CONFIG)
PrePool == call.pre.MINTABLE_TOKEN_IDS
PreCount == Unwrap(call.pre.MINTABLE_NUM_TOKENS)
\* the issuance address was set when the last call was made
AddressSetBefore ==
    IsSome(call.pre.CONFIG) /\ IsSome(PreConfig.cw721_address)
\* the last call was made after instantiate and before any accepted reply
PendingBefore ==
    IsSome(call.pre.CONFIG) /\ ~IsSome(PreConfig.cw721_address)
\* the last call left every stored record as it found it
StorageUnchanged == storage = call.pre
PoolUnchanged ==
    /\ MINTABLE_TOKEN_IDS = call.pre.MINTABLE_TOKEN_IDS
    /\ MINTABLE_NUM_TOKENS = call.pre.MINTABLE_NUM_TOKENS
InRange(id) == id >= 1 /\ id <= PreConfig.max_tokens
\* the ids the last call's handler had removed from the map when it returned
RemovedInCall == PrePool \ call.written.MINTABLE_TOKEN_IDS

\* C1: in every state after a successful instantiate, whatever calls
\* followed it, the counter MINTABLE_NUM_TOKENS is the number of keys in
\* MINTABLE_TOKEN_IDS.
C1_CounterIsPoolSize ==
    Instantiated =>
        MINTABLE_NUM_TOKENS = Some(Cardinality(MINTABLE_TOKEN_IDS))

\* a batch mint that stopped at the per-batch limit, after other mints
C1_Witness ==
    /\ call.op = "batch_mint"
    /\ call.res.kind = "Ok"
    /\ Len(call.res.token_id) >= 1
    /\ Len(call.res.token_id) < Len(call.args.token_ids)
    /\ Cardinality(PrePool) < PreConfig.max_tokens

\* C2: no token id is returned by two successful mint calls (single or
\* batch, nor twice by one batch), and a successful single mint lowers the
\* counter by exactly 1.
C2_ExactlyOnce ==
    /\ \A id \in DOMAIN allocated : allocated[id] <= 1
    /\ (call.op \in {"mint", "mint_to"} /\ call.res.kind = "Ok") =>
          /\ MINTABLE_NUM_TOKENS = Some(PreCount - 1)
          /\ Len(call.res.token_id) = 1

\* a successful single mint after which every id of the pool has been
\* allocated, one of them at least by an earlier call
C2_Witness ==
    /\ call.op \in {"mint", "mint_to"}
    /\ call.res.kind = "Ok"
    /\ MINTABLE_TOKEN_IDS = {}
    /\ PreConfig.max_tokens >= 2
    /\ \A id \in 1..PreConfig.max_tokens : allocated[id] = 1

BatchOfAvailable ==
    /\ call.op = "batch_mint"
    /\ NoDuplicates(call.args.token_ids)
    /\ \A id \in Range(call.args.token_ids) : InRange(id) /\ id \in PrePool

\* the part of the list a batch mint processes: its last
\* max_tokens_per_batch_mint entries (all of it when it is no longer)
Processed(ids) ==
    LET n == Len(ids)
        k == IF n <= PreConfig.max_tokens_per_batch_mint
             THEN n ELSE PreConfig.max_tokens_per_batch_mint
    IN  SubSeq(ids, n - k + 1, n)

\* the outcome C4 describes: success, the processed part returned last to
\* first and taken out of the pool, the rest of the list left in it
AllocatedLastToFirst ==
    /\ call.res.kind = "Ok"
    /\ call.res.token_id = Reverse(Processed(call.args.token_ids))
    /\ Len(call.res.msgs) = Len(call.res.token_id)
    /\ MINTABLE_TOKEN_IDS = PrePool \ Range(Processed(call.args.token_ids))
    /\ MINTABLE_NUM_TOKENS = Some(PreCount - Len(Processed(call.args.token_ids)))

C4_WitnessAll ==
    /\ BatchOfAvailable
    /\ AddressSetBefore
    /\ Len(call.args.token_ids) >= 2
    /\ Len(call.args.token_ids) <= PreConfig.max_tokens_per_batch_mint
    /\ call.res.kind = "Ok"

\* an id the claim C5 calls offending: out of range, or not in the pool when
\* the call was made
Offending(id) == ~InRange(id) \/ id \notin PrePool

\* the outcome C5 describes: InvalidTokenId or TokenIdAlreadySold, and nothing
\* allocated
AbortedBatch ==
    /\ call.res.kind = "Err"
    /\ call.res.err \in {"InvalidTokenId", "TokenIdAlreadySold"}
    /\ call.res.token_id = <<>>
    /\ PoolUnchanged

\* C5 as stated, for the calls made with the issuance address set: a batch
\* mint whose list holds an offending id at any position aborts.
C5_Original ==
    (/\ call.op = "batch_mint"
     /\ AddressSetBefore
     /\ \E id \in Range(call.args.token_ids) : Offending(id)) =>
        AbortedBatch

\* C5, amended: a batch mint whose list holds an offending id among its last
\* max_tokens_per_batch_mint entries does not succeed and allocates nothing;
\* made with the issuance address set, it returns InvalidTokenId or
\* TokenIdAlreadySold.
C5_OffendingProcessedAborts ==
    (/\ call.op = "batch_mint"
     /\ \E id \in Range(Processed(call.args.token_ids)) : Offending(id)) =>
        /\ call.res.kind # "Ok"
        /\ PoolUnchanged
        /\ AddressSetBefore => AbortedBatch

\* a batch mint that aborted on an already allocated id after its handler
\* had removed another id
C5_Witness ==
    /\ call.op = "batch_mint"
    /\ AddressSetBefore
    /\ \E id \in Range(Processed(call.args.token_ids)) :
          InRange(id) /\ id \notin PrePool
    /\ call.res.err = "TokenIdAlreadySold"
    /\ RemovedInCall # {}

\* a batch mint that succeeded although its list holds an offending id,
\* in the part the limit leaves unprocessed
C5_WitnessUnprocessed ==
    /\ call.op = "batch_mint"
    /\ \E id \in Range(call.args.token_ids) : Offending(id)
    /\ call.res.kind = "Ok"
    /\ Len(call.res.token_id) >= 1

\* the last call was a mint request of valid ids, distinct and all in the
\* pool, made while the issuance address was absent
MintOfAvailableWhilePending ==
    /\ call.op \in MintOps
    /\ PendingBefore
    /\ call.args.token_ids # <<>>
    /\ NoDuplicates(call.args.token_ids)
    /\ \A id \in Range(call.args.token_ids) : InRange(id) /\ id \in PrePool
    /\ call.op = "mint_to" => addr_validate(call.args.recipient)

C7_AddressWrittenOnce ==
    (call.op = "reply" /\ AddressSetBefore) =>
        Unwrap(CONFIG).cw721_address = PreConfig.cw721_address

\* C8: a reply whose id is not INSTANTIATE_CW721_REPLY_ID returns
\* InvalidReplyID and leaves the config, the pool and the counter unchanged,
\* whatever its payload and whether or not the address is set.
C8_WrongReplyIdRejected ==
    (call.op = "reply" /\ call.args.id # INSTANTIATE_CW721_REPLY_ID) =>
        /\ call.res.kind = "Err"
        /\ call.res.err = "InvalidReplyID"
        /\ StorageUnchanged

\* a reply with a wrong id that carries an address other than the stored one
C8_Witness ==
    /\ call.op = "reply"
    /\ call.args.id # INSTANTIATE_CW721_REPLY_ID
    /\ IsSome(call.args.payload)
    /\ AddressSetBefore
    /\ call.args.payload # PreConfig.cw721_address
    /\ call.res.err = "InvalidReplyID"

\* C9: mint called again and again ends with SoldOut: the mint made once the
\* pool is empty returns SoldOut.
C9_MintEndsWithSoldOut ==
    (call.op = "mint" /\ PrePool = {}) => call.res.err = "SoldOut"

\* C10: right after a successful instantiate the counter is num_tokens and
\* the pool holds exactly the ids 1..num_tokens.
C10_CreateFillsPool ==
    (call.op = "instantiate" /\ call.res.kind = "Ok") =>
        /\ MINTABLE_NUM_TOKENS = Some(call.args.msg.num_tokens)
        /\ MINTABLE_TOKEN_IDS = 1..call.args.msg.num_tokens
        /\ Unwrap(CONFIG).max_tokens = call.args.msg.num_tokens

\* a successful instantiate of the largest capacity
C10_Witness ==
    /\ call.op = "instantiate"
    /\ call.res.kind = "Ok"
    /\ call.args.msg.num_tokens = MaxNumTokens
    /\ Cardinality(MINTABLE_TOKEN_IDS) >= 2

\* C11: an instantiate fails with InvalidNumTokens when num_tokens is 0 or
\* above 10000, with InvalidMaxTokensPerBatchMint /
\* InvalidMaxTokensPerBatchTransfer when that limit is 0 or above 200, and
\* with InvalidBaseTokenURI when the uri parses with a scheme other than
\* ipfs (of several bad fields, the first in this order decides the error);
\* after every failed instantiate the storage holds nothing at all.
BadNumTokens(msg) == msg.num_tokens = 0 \/ msg.num_tokens > 10000
BadBatchMintLimit(msg) ==
    msg.max_tokens_per_batch_mint = 0 \/ msg.max_tokens_per_batch_mint > 200
BadBatchTransferLimit(msg) ==
    msg.max_tokens_per_batch_transfer = 0 \/ msg.max_tokens_per_batch_transfer > 200
BadScheme(msg) == msg.base_token_uri.parses /\ msg.base_token_uri.scheme # "ipfs"

C11_InvalidCreateWritesNothing ==
    call.op = "instantiate" =>
        LET msg == call.args.msg
        IN  /\ BadNumTokens(msg) => call.res.err = "InvalidNumTokens"
            /\ ~BadNumTokens(msg) /\ BadBatchMintLimit(msg)
                  => call.res.err = "InvalidMaxTokensPerBatchMint"
            /\ ~BadNumTokens(msg) /\ ~BadBatchMintLimit(msg)
                  /\ BadBatchTransferLimit(msg)
                  => call.res.err = "InvalidMaxTokensPerBatchTransfer"
            /\ ~BadNumTokens(msg) /\ ~BadBatchMintLimit(msg)
                  /\ ~BadBatchTransferLimit(msg) /\ BadScheme(msg)
                  => call.res.err = "InvalidBaseTokenURI"
            /\ (BadNumTokens(msg) \/ BadBatchMintLimit(msg)
                   \/ BadBatchTransferLimit(msg) \/ BadScheme(msg))
                  => call.res.kind = "Err"
            /\ call.res.kind # "Ok" => storage = EmptyStorage

\* a failed instantiate: the transfer limit above 200, every field before it
\* valid, the contract version written by the handler and discarded
C11_Witness ==
    /\ call.op = "instantiate"
    /\ call.args.msg.max_tokens_per_batch_transfer > 200
    /\ call.res.err = "InvalidMaxTokensPerBatchTransfer"
    /\ call.written.CONTRACT # None
    /\ storage = EmptyStorage

\* x <= y for the Uint128 values that arise
Uint128_le(x, y) ==
    \/ x.max_percent < y.max_percent
    \/ x.max_percent = y.max_percent /\ x.plus <= y.plus

\* C12: in every state after instantiate the Config's royalty_percentage is
\* None or within 0..100, and every RoyaltyInfo answer has
\* royalty_amount <= sale_price.
C12_RoyaltyWithinBounds ==
    Instantiated =>
        LET pct == Unwrap(CONFIG).royalty_percentage
        IN  /\ pct = None \/ (Unwrap(pct) >= 0 /\ Unwrap(pct) <= 100)
            /\ call.op = "royalty_info" /\ call.res.kind = "Ok"
                  => Uint128_le(call.res.data.royalty_amount, call.args.sale_price)

\* C13: RoyaltyInfo{sale_price} answers, for every sale_price and every
\* configured royalty_percentage, with royalty_amount =
\* floor(sale_price * royalty_percentage / 100), taking a royalty_percentage
\* of None as 0, with royalty_address = "" when no payment address is
\* configured, and writes nothing.
C13_RoyaltyIsFloor ==
    call.op = "royalty_info" =>
        LET sale_price == call.args.sale_price
            pct == IF IsSome(PreConfig.royalty_percentage)
                   THEN Unwrap(PreConfig.royalty_percentage) ELSE 0
        IN  /\ call.res.kind = "Ok"
            /\ sale_price.max_percent = 0
                  => call.res.data.royalty_amount
                       = Uint128((sale_price.plus * pct) \div 100)
            /\ sale_price = Uint128_MAX /\ pct <= 100
                  => call.res.data.royalty_amount
                       = [max_percent |-> pct, plus |-> 0]
            /\ call.res.data.royalty_address
                  = (IF IsSome(PreConfig.royalty_payment_address)
                     THEN Unwrap(PreConfig.royalty_payment_address) ELSE "")
            /\ call.written = call.pre
            /\ StorageUnchanged

TransferOps == {"transfer_nft", "batch_transfer_nft"}

\* C14: a TransferNft or BatchTransferNft call, whatever its ids and
\* recipient and whether it succeeds or fails, leaves MINTABLE_TOKEN_IDS,
\* MINTABLE_NUM_TOKENS and CONFIG as they were; its handler writes none of
\* them.
C14_TransferLeavesPoolAndConfig ==
    call.op \in TransferOps =>
        /\ PoolUnchanged
        /\ CONFIG = call.pre.CONFIG
        /\ call.written.MINTABLE_TOKEN_IDS = call.pre.MINTABLE_TOKEN_IDS
        /\ call.written.MINTABLE_NUM_TOKENS = call.pre.MINTABLE_NUM_TOKENS
        /\ call.written.CONFIG = call.pre.CONFIG

\* a successful transfer of an id that is still in the map
C14_Witness ==
    /\ call.op = "transfer_nft"
    /\ call.res.kind = "Ok"
    /\ call.args.token_ids[1] \in PrePool
    /\ call.args.token_ids[1] \in MINTABLE_TOKEN_IDS

\* a Config with its cw721_address blanked
WithoutAddress(config) == [config EXCEPT !.cw721_address = None]

\* C15: a successful instantiate stores its message's values in CONFIG, and
\* every later call leaves every CONFIG field but cw721_address as it was;
\* a call other than reply leaves CONFIG as a whole as it was, in what its
\* handler writes as in what is stored.
C15_OnlyReplyWritesConfigAddress ==
    /\ call.op = "instantiate" /\ call.res.kind = "Ok" =>
           LET msg == call.args.msg
               config == Unwrap(CONFIG)
           IN  /\ config.owner = call.args.sender
               /\ config.cw721_code_id = msg.cw721_code_id
               /\ config.name = msg.name
               /\ config.symbol = msg.symbol
               /\ config.base_token_uri = msg.base_token_uri
               /\ config.max_tokens = msg.num_tokens
               /\ config.max_tokens_per_batch_mint = msg.max_tokens_per_batch_mint
               /\ config.max_tokens_per_batch_transfer
                     = msg.max_tokens_per_batch_transfer
               /\ config.royalty_percentage = msg.royalty_percentage
               /\ config.royalty_payment_address = msg.royalty_payment_address
    /\ IsSome(call.pre.CONFIG) =>
           /\ IsSome(CONFIG) /\ IsSome(call.written.CONFIG)
           /\ WithoutAddress(Unwrap(CONFIG)) = WithoutAddress(PreConfig)
           /\ WithoutAddress(Unwrap(call.written.CONFIG)) = WithoutAddress(PreConfig)
           /\ call.op # "reply" =>
                  CONFIG = call.pre.CONFIG /\ call.written.CONFIG = call.pre.CONFIG

\* an accepted reply on a Config with a royalty percentage: the address is
\* written, the percentage kept
C15_Witness ==
    /\ call.op = "reply"
    /\ call.res.kind = "Ok"
    /\ PreConfig.royalty_percentage = Some(5)
    /\ Unwrap(CONFIG).royalty_percentage = Some(5)
    /\ Unwrap(CONFIG).cw721_address # PreConfig.cw721_address

\* C16: a Mint, or a MintTo whose recipient passes addr_validate, fails with
\* InvalidTokenId when its token_id is 0 or above max_tokens (whether or not
\* the id is in the map), and with TokenIdAlreadySold carrying the token_id
\* when it is in range and not in the map; either way the handler writes
\* nothing, so the map and the counter are as before.
C16_ExplicitIdErrors ==
    (call.op = "mint" \/ (call.op = "mint_to" /\ addr_validate(call.args.recipient)))
    => LET token_id == call.args.token_ids[1]
       IN  /\ ~InRange(token_id) =>
                  /\ call.res.kind = "Err"
                  /\ call.res.err = "InvalidTokenId"
                  /\ call.written = call.pre
                  /\ PoolUnchanged
           /\ InRange(token_id) /\ token_id \notin PrePool =>
                  /\ call.res.kind = "Err"
                  /\ call.res.err = "TokenIdAlreadySold"
                  /\ call.res.err_token_id = Some(token_id)
                  /\ call.written = call.pre
                  /\ PoolUnchanged

\* a MintTo of an id minted before
C16_Witness ==
    /\ call.op = "mint_to"
    /\ addr_validate(call.args.recipient)
    /\ InRange(call.args.token_ids[1])
    /\ call.args.token_ids[1] \notin PrePool
    /\ call.res.err = "TokenIdAlreadySold"
    /\ call.res.err_token_id = Some(call.args.token_ids[1])

\* a Mint of an id above max_tokens
C16_WitnessRange ==
    /\ call.op = "mint"
    /\ call.args.token_ids[1] > PreConfig.max_tokens
    /\ call.res.err = "InvalidTokenId"

\* the last call was a reply with the right id reporting that the cw721
\* instantiation failed, made while the issuance address was absent
FailedHandshakeReply ==
    /\ call.op = "reply"
    /\ call.args.id = INSTANTIATE_CW721_REPLY_ID
    /\ call.args.payload = None
    /\ PendingBefore

\* C17: a reply with the right id that reports failure returns an error and
\* leaves the Config address absent, and the call that follows it, whatever
\* it is, leaves the address absent too.
C17_FailedHandshakeStaysFailed ==
    [][FailedHandshakeReply =>
          /\ call.res.kind = "Err"
          /\ ~IsSome(Unwrap(CONFIG).cw721_address)
          /\ ~IsSome(Unwrap(CONFIG').cw721_address)]_vars

\* the numerically smallest id of a non-empty set
Smallest(ids) == CHOOSE k \in ids : \A j \in ids : k <= j

\* the outcome C18 describes: the smallest id of the pool allocated
SmallestAllocated ==
    /\ call.res.kind = "Ok"
    /\ call.res.token_id = <<Smallest(PrePool)>>
    /\ Len(call.res.msgs) = 1
    /\ call.res.msgs[1].token_id = Smallest(PrePool)
    /\ MINTABLE_TOKEN_IDS = PrePool \ {Smallest(PrePool)}

C18_WitnessLater ==
    /\ call.op = "auto_mint"
    /\ AddressSetBefore
    /\ PrePool # {}
    /\ 1 \notin PrePool
    /\ call.res.kind = "Ok"

\* the part of the list a batch transfer processes: its last
\* max_tokens_per_batch_transfer entries (all of it when it is no longer)
ProcessedTransfer(ids) ==
    LET n == Len(ids)
        k == IF n <= PreConfig.max_tokens_per_batch_transfer
             THEN n ELSE PreConfig.max_tokens_per_batch_transfer
    IN  SubSeq(ids, n - k + 1, n)

\* the last call was a batch transfer to a recipient that passes
\* addr_validate
BatchTransferCall ==
    /\ call.op = "batch_transfer_nft"
    /\ addr_validate(call.args.recipient)

\* the outcome C19 describes: success, one transfer message for each
\* processed id, last to first, to the recipient, whatever the ids are
TransferredLastToFirst ==
    LET ids == Reverse(ProcessedTransfer(call.args.token_ids))
    IN  /\ call.res.kind = "Ok"
        /\ call.res.token_id = ids
        /\ Len(call.res.msgs) = Len(ids)
        /\ \A i \in 1..Len(ids) :
               /\ call.res.msgs[i].token_id = ids[i]
               /\ call.res.msgs[i].recipient = call.args.recipient
        /\ StorageUnchanged

C19_WitnessRepeated ==
    /\ BatchTransferCall
    /\ AddressSetBefore
    /\ call.res.kind = "Ok"
    /\ Len(call.res.msgs) = 2
    /\ call.res.msgs[1].token_id = call.res.msgs[2].token_id
    /\ call.res.msgs[1].token_id \in PrePool

\* the ids of the last batch mint's list in the order the loop takes them
PopOrder == Reverse(Processed(call.args.token_ids))

\* position j of PopOrder is the second occurrence of an id that was in
\* range and in the pool when the call was made
SecondOccurrence(j) ==
    /\ InRange(PopOrder[j])
    /\ PopOrder[j] \in PrePool
    /\ \E i \in 1..(j - 1) : PopOrder[i] = PopOrder[j]

\* the last call was a batch mint with such an id among those it processes
BatchWithRepeat ==
    /\ call.op = "batch_mint"
    /\ \E j \in 1..Len(PopOrder) : SecondOccurrence(j)

====
